---------------------------- MODULE Spec2Model ----------------------------
(***************************************************************************)
(* A model of the card game of src/src/main.rs (GameBuilder, Game, main)   *)
(* and of the card library of src/src/cards.rs (Suit, Rank, Card,          *)
(* DeckBuilder, card_printer).                                             *)
(*                                                                         *)
(* Two specifications share the variables:                                 *)
(*   Spec      the run of main(), with the player count passed to          *)
(*             GameBuilder::players and the shuffle drawn from bounded     *)
(*             sets;                                                       *)
(*   SpecCards a hand of cards.rs cards that is built from a deck, toggled,*)
(*             sorted, valued and displayed.                               *)
(*                                                                         *)
(* Text is a sequence of tokens: one-character strings, "U+26xx" for a     *)
(* suit glyph (one terminal column) and "ESC[..m" for an ANSI escape       *)
(* sequence (no terminal column).                                          *)
(***************************************************************************)
EXTENDS Integers, Sequences, FiniteSets, TLC

VARIABLES
    pc,            \* position of main(): new, configured, spawned, loop, won, done, panicked, idle
    count,         \* the argument main passes to GameBuilder::players
    player_count,  \* GameBuilder.player_count
    deck,          \* Game.deck
    players,       \* Game.players
    turn,          \* Game.turn
    panic,         \* the panic message, <<>> while none
    winner,        \* what show_winner printed: <<>> or <<index>>
    results,       \* what show_results printed: per player the lines and the score
    built,         \* cards.rs: the last value returned by DeckBuilder::new
    hand,          \* cards.rs: a Vec<Card>
    out            \* cards.rs: what the last call on the hand produced

vars == <<pc, count, player_count, deck, players, turn, panic, winner, results,
          built, hand, out>>

gameVars == <<pc, count, player_count, deck, players, turn, panic, winner, results>>

cardVars == <<built, hand, out>>

---------------------------------------------------------------------------
(* Bounds of the model *)

\* GameBuilder::players takes a u8; the model passes 0..MaxCount
MaxCount == 7

\* the shuffles explored: position i receives the card at (a*i + b) mod 52,
\* a in 1..MaxStride coprime to the deck length, b in 0..MaxOffset
MaxStride == 7

MaxOffset == 51

\* the longest hand built under SpecCards
MaxHandLen == 5

---------------------------------------------------------------------------
(* Suit, Rank, CardState: the enums, by discriminant (the derived Ord) *)

Spades == 1

Diamonds == 2

Hearts == 3

Clubs == 4

Two == 0

Three == 1

Four == 2

Five == 3

Six == 4

Seven == 5

Eight == 6

Nine == 7

Ten == 8

Jack == 9

Queen == 10

King == 11

Ace == 12

Visible == 0

Hidden == 1

SUITS == <<Spades, Diamonds, Hearts, Clubs>>

RANKS == <<Two, Three, Four, Five, Six, Seven, Eight, Nine, Ten, Jack, Queen, King, Ace>>

\* Rank::value with Ten..King scored as their ordinal would suggest (11, 12, 13)
Rank_value_Ordinal(rank) ==
    CASE rank = Two -> 2 [] rank = Three -> 3 [] rank = Four -> 4
      [] rank = Five -> 5 [] rank = Six -> 6 [] rank = Seven -> 7
      [] rank = Eight -> 8 [] rank = Nine -> 9 [] rank = Ten -> 10
      [] rank = Jack -> 11 [] rank = Queen -> 12 [] rank = King -> 13
      [] rank = Ace -> 14

Rank_value(rank) ==
    CASE rank = Two -> 2 [] rank = Three -> 3 [] rank = Four -> 4
      [] rank = Five -> 5 [] rank = Six -> 6 [] rank = Seven -> 7
      [] rank = Eight -> 8 [] rank = Nine -> 9 [] rank = Ten -> 10
      [] rank = Jack -> 10 [] rank = Queen -> 10 [] rank = King -> 10
      [] rank = Ace -> 11

\* Display for Rank
Rank_fmt(rank) ==
    CASE rank = Two -> <<"2">> [] rank = Three -> <<"3">> [] rank = Four -> <<"4">>
      [] rank = Five -> <<"5">> [] rank = Six -> <<"6">> [] rank = Seven -> <<"7">>
      [] rank = Eight -> <<"8">> [] rank = Nine -> <<"9">> [] rank = Ten -> <<"1", "0">>
      [] rank = Jack -> <<"J">> [] rank = Queen -> <<"Q">> [] rank = King -> <<"K">>
      [] rank = Ace -> <<"A">>

\* Display for Suit in main.rs: the bare glyph
Main_Suit_fmt(suit) ==
    CASE suit = Spades -> <<"U+2660">> [] suit = Diamonds -> <<"U+2666">>
      [] suit = Hearts -> <<"U+2665">> [] suit = Clubs -> <<"U+2663">>

\* Display for Suit in cards.rs: the glyph painted by ansi_term
\* (Colour::White is SGR 37, Colour::Red is SGR 31, the reset is SGR 0)
Suit_fmt(suit) ==
    CASE suit = Spades -> <<"ESC[37m", "U+2660", "ESC[0m">>
      [] suit = Diamonds -> <<"ESC[31m", "U+2666", "ESC[0m">>
      [] suit = Hearts -> <<"ESC[31m", "U+2665", "ESC[0m">>
      [] suit = Clubs -> <<"ESC[37m", "U+2663", "ESC[0m">>

---------------------------------------------------------------------------
(* Card *)

\* main.rs: Card { suit, rank }
Main_Card_new(suit, rank) == [suit |-> suit, rank |-> rank]

\* cards.rs: Card { suit, rank, state: Hidden }
Card_new(suit, rank) == [suit |-> suit, rank |-> rank, state |-> Hidden]

\* Card::value (both files): (self.suit as u32) * self.rank.value()
Card_value(card) == card.suit * Rank_value(card.rank)

\* Card::toggle
Card_toggle(card) ==
    IF card.state = Visible THEN [card EXCEPT !.state = Hidden]
    ELSE [card EXCEPT !.state = Visible]

\* the derived Ord of main.rs Card, with the fields compared rank first
Main_Card_lt_RankFirst(a, b) ==
    \/ a.rank < b.rank
    \/ a.rank = b.rank /\ a.suit < b.suit

\* the derived Ord of main.rs Card: suit, then rank
Main_Card_lt(a, b) ==
    \/ a.suit < b.suit
    \/ a.suit = b.suit /\ a.rank < b.rank

\* the derived Ord of cards.rs Card, with the fields compared rank first
Card_lt_RankFirst(a, b) ==
    \/ a.rank < b.rank
    \/ a.rank = b.rank /\ a.suit < b.suit
    \/ a.rank = b.rank /\ a.suit = b.suit /\ a.state < b.state

\* the derived Ord of cards.rs Card: suit, then rank, then state
Card_lt(a, b) ==
    \/ a.suit < b.suit
    \/ a.suit = b.suit /\ a.rank < b.rank
    \/ a.suit = b.suit /\ a.rank = b.rank /\ a.state < b.state

\* Vec::sort (stable) under Main_Card_lt: the element at i moves to the place
\* after the elements that are smaller, or equal and before it
Main_sort(s) ==
    LET pos(i) == 1 + Cardinality({j \in DOMAIN s :
                        \/ Main_Card_lt(s[j], s[i])
                        \/ ~Main_Card_lt(s[i], s[j]) /\ j < i})
    IN [k \in DOMAIN s |-> s[CHOOSE i \in DOMAIN s : pos(i) = k]]

\* Vec::sort (stable) under Card_lt
Card_sort(s) ==
    LET pos(i) == 1 + Cardinality({j \in DOMAIN s :
                        \/ Card_lt(s[j], s[i])
                        \/ ~Card_lt(s[i], s[j]) /\ j < i})
    IN [k \in DOMAIN s |-> s[CHOOSE i \in DOMAIN s : pos(i) = k]]

---------------------------------------------------------------------------
(* DeckBuilder::new: for rank in RANKS { for suit in SUITS { push } } *)

RECURSIVE Main_PushSuits(_, _, _)
Main_PushSuits(d, rank, i) ==
    IF i > Len(SUITS) THEN d
    ELSE Main_PushSuits(Append(d, Main_Card_new(SUITS[i], rank)), rank, i + 1)

RECURSIVE Main_PushRanks(_, _)
Main_PushRanks(d, j) ==
    IF j > Len(RANKS) THEN d
    ELSE Main_PushRanks(Main_PushSuits(d, RANKS[j], 1), j + 1)

Main_DeckBuilder_new == Main_PushRanks(<<>>, 1)

RECURSIVE PushSuits(_, _, _)
PushSuits(d, rank, i) ==
    IF i > Len(SUITS) THEN d
    ELSE PushSuits(Append(d, Card_new(SUITS[i], rank)), rank, i + 1)

RECURSIVE PushRanks(_, _)
PushRanks(d, j) ==
    IF j > Len(RANKS) THEN d
    ELSE PushRanks(PushSuits(d, RANKS[j], 1), j + 1)

\* the loops nested the other way round: for suit { for rank { push } }
RECURSIVE PushRanksOfSuit(_, _, _)
PushRanksOfSuit(d, suit, j) ==
    IF j > Len(RANKS) THEN d
    ELSE PushRanksOfSuit(Append(d, Card_new(suit, RANKS[j])), suit, j + 1)

RECURSIVE PushSuitsMajor(_, _)
PushSuitsMajor(d, i) ==
    IF i > Len(SUITS) THEN d
    ELSE PushSuitsMajor(PushRanksOfSuit(d, SUITS[i], 1), i + 1)

DeckBuilder_new_SuitMajor == PushSuitsMajor(<<>>, 1)

DeckBuilder_new == PushRanks(<<>>, 1)

---------------------------------------------------------------------------
(* Text *)

Rep(c, n) == [i \in 1..n |-> c]

Digits == <<"0", "1", "2", "3", "4", "5", "6", "7", "8", "9">>

\* Display for an unsigned integer
RECURSIVE Decimal(_)
Decimal(n) ==
    IF n < 10 THEN <<Digits[n + 1]>>
    ELSE Decimal(n \div 10) \o <<Digits[(n % 10) + 1]>>

EscapeTokens == {"ESC[37m", "ESC[31m", "ESC[0m"}

\* the tokens of a line that take a terminal column
Shown(line) == SelectSeq(line, LAMBDA t : t \notin EscapeTokens)

\* the number of terminal columns a line takes
Width(line) == Len(Shown(line))

\* the concatenation of the cells cell(1) .. cell(n): one print! per loop turn
RECURSIVE Cells(_, _, _)
Cells(row, hnd, i) ==
    IF i > Len(hnd) THEN <<>>
    ELSE row[i] \o Cells(row, hnd, i + 1)

---------------------------------------------------------------------------
(* main.rs: card_printer *)

Main_end_cell == <<"*", "-", "-", "-", "-", "-", "-", "-", "-", "-", "*">> \o <<" ">>

Main_empty_cell == <<"|">> \o Rep(" ", 9) \o <<"|">> \o <<" ">>

Main_left_rank_cell(card) ==
    IF card.rank = Ten
    THEN <<"|", " ">> \o Rank_fmt(card.rank) \o Rep(" ", 6) \o <<"|">> \o <<" ">>
    ELSE <<"|", " ">> \o Rank_fmt(card.rank) \o Rep(" ", 7) \o <<"|">> \o <<" ">>

Main_right_rank_cell(card) ==
    IF card.rank = Ten
    THEN <<"|">> \o Rep(" ", 6) \o Rank_fmt(card.rank) \o <<" ", "|">> \o <<" ">>
    ELSE <<"|">> \o Rep(" ", 7) \o Rank_fmt(card.rank) \o <<" ", "|">> \o <<" ">>

Main_suit_cell(card) ==
    <<"|">> \o Rep(" ", 4) \o Main_Suit_fmt(card.suit) \o Rep(" ", 4) \o <<"|">> \o <<" ">>

Main_print_end(size) == Cells([i \in 1..size |-> Main_end_cell], Rep(0, size), 1)

Main_print_empty_section(size) == Cells([i \in 1..size |-> Main_empty_cell], Rep(0, size), 1)

Main_print_left_rank(d) == Cells([i \in DOMAIN d |-> Main_left_rank_cell(d[i])], d, 1)

Main_print_right_rank(d) == Cells([i \in DOMAIN d |-> Main_right_rank_cell(d[i])], d, 1)

Main_print_suit(d) == Cells([i \in DOMAIN d |-> Main_suit_cell(d[i])], d, 1)

\* "{: >width$}": right-aligned in width columns, never cut
PadLeft(s, width) == (IF Len(s) < width THEN Rep(" ", width - Len(s)) ELSE <<>>) \o s

\* display_hand(deck, name): the title line and the seven lines of the cards
Main_display_hand(d, name) ==
    << PadLeft(name, (Len(d) * 12) \div 2) \o <<"'", "s", " ", "H", "a", "n", "d">>,
       Main_print_end(Len(d)),
       Main_print_left_rank(d),
       Main_print_empty_section(Len(d)),
       Main_print_suit(d),
       Main_print_empty_section(Len(d)),
       Main_print_right_rank(d),
       Main_print_end(Len(d)) >>

---------------------------------------------------------------------------
(* main.rs: GameBuilder, Game *)

DefaultPlayers == 2

MinPlayers == 2

MaxPlayers == 5

\* is_over compares each hand's length with this
OverLen == 2

TooFew == "Must have more than 1 player."

TooMany == "Too many players."

\* the message of Option::unwrap on None (its backquotes left out)
UnwrapNone == "called Option::unwrap() on a None value"

\* players(count) that clamps an out-of-range count instead of panicking
GameBuilder_players_Clamp(c) ==
    [ok |-> TRUE,
     player_count |-> IF c < MinPlayers THEN MinPlayers
                      ELSE IF c > MaxPlayers THEN MaxPlayers ELSE c,
     msg |-> <<>>]

\* GameBuilder::players: the match on count
GameBuilder_players(c) ==
    IF c \in 0..(MinPlayers - 1)
    THEN [ok |-> FALSE, player_count |-> player_count, msg |-> <<TooFew>>]
    ELSE IF c \in MinPlayers..MaxPlayers
    THEN [ok |-> TRUE, player_count |-> c, msg |-> <<>>]
    ELSE [ok |-> FALSE, player_count |-> player_count, msg |-> <<TooMany>>]

\* score_hand: the fold over the hand
RECURSIVE score_fold(_, _, _)
score_fold(sum, h, i) ==
    IF i > Len(h) THEN sum
    ELSE score_fold(sum + Card_value(h[i]), h, i + 1)

score_hand(h) == score_fold(0, h, 1)

\* is_over with the comparison off by one (len > 3)
is_over_OffByOne == \A p \in DOMAIN players : Len(players[p]) > OverLen + 1

\* Game::is_over
is_over == \A p \in DOMAIN players : Len(players[p]) > OverLen

\* show_winner's loop with >= in place of >: the last player reaching the maximum
RECURSIVE winner_fold_Last(_, _, _)
winner_fold_Last(win, winning_score, p) ==
    IF p > Len(players) THEN win
    ELSE LET score == score_hand(players[p])
         IN IF score >= winning_score
            THEN winner_fold_Last(p - 1, score, p + 1)
            ELSE winner_fold_Last(win, winning_score, p + 1)

\* show_winner's loop: player indices are 0-based, players[] is 1-based
RECURSIVE winner_fold(_, _, _)
winner_fold(win, winning_score, p) ==
    IF p > Len(players) THEN win
    ELSE LET score == score_hand(players[p])
         IN IF score > winning_score
            THEN winner_fold(p - 1, score, p + 1)
            ELSE winner_fold(win, winning_score, p + 1)

show_winner_Last == winner_fold_Last(0, 0, 1)

\* Game::show_winner: the index it prints
show_winner == winner_fold(0, 0, 1)

RECURSIVE GCD(_, _)
GCD(a, b) == IF b = 0 THEN a ELSE GCD(b, a % b)

\* the shuffles explored: the affine permutations of the positions
Strides(n) == {a \in 1..MaxStride : GCD(a, n) = 1}

Shuffled(d, a, b) == [i \in DOMAIN d |-> d[((a * (i - 1) + b) % Len(d)) + 1]]

\* advance() that copies the card it deals instead of popping it
Game_advance_NoPop(d, ps, t) ==
    IF d = <<>>
    THEN [ok |-> FALSE, deck |-> d, players |-> ps, turn |-> t]
    ELSE LET card == d[Len(d)]
             player == (t % Len(ps)) + 1
         IN [ok |-> TRUE,
             deck |-> d,
             players |-> [ps EXCEPT ![player] = Main_sort(Append(@, card))],
             turn |-> t + 1]

\* advance() that forgets the turn: every card goes to the first player
Game_advance_FirstPlayer(d, ps, t) ==
    IF d = <<>>
    THEN [ok |-> FALSE, deck |-> d, players |-> ps, turn |-> t]
    ELSE LET card == d[Len(d)]
         IN [ok |-> TRUE,
             deck |-> SubSeq(d, 1, Len(d) - 1),
             players |-> [ps EXCEPT ![1] = Main_sort(Append(@, card))],
             turn |-> t + 1]

\* Game::advance on (deck, players, turn): pop, push to players[turn % n], sort, turn += 1;
\* ok is FALSE when deck.pop() is None and unwrap panics
Game_advance(d, ps, t) ==
    IF d = <<>>
    THEN [ok |-> FALSE, deck |-> d, players |-> ps, turn |-> t]
    ELSE LET card == d[Len(d)]
             player == (t % Len(ps)) + 1
         IN [ok |-> TRUE,
             deck |-> SubSeq(d, 1, Len(d) - 1),
             players |-> [ps EXCEPT ![player] = Main_sort(Append(@, card))],
             turn |-> t + 1]

\* "Player {}"
PlayerName(p) == <<"P", "l", "a", "y", "e", "r", " ">> \o Decimal(p)

\* out before any call on the hand
NoOutput == [op |-> "none"]

---------------------------------------------------------------------------
(* main() *)

Init ==
    /\ pc = "new"
    /\ count \in 0..MaxCount
    /\ player_count = DefaultPlayers
    /\ deck = <<>>
    /\ players = <<>>
    /\ turn = 0
    /\ panic = <<>>
    /\ winner = <<>>
    /\ results = <<>>
    /\ built = <<>>
    /\ hand = <<>>
    /\ out = NoOutput

\* GameBuilder::new().players(count)
Players ==
    /\ pc = "new"
    /\ LET r == GameBuilder_players(count)
       IN /\ player_count' = r.player_count
          /\ panic' = r.msg
          /\ pc' = IF r.ok THEN "configured" ELSE "panicked"
    /\ UNCHANGED <<count, deck, players, turn, winner, results, cardVars>>

\* .spawn()
Spawn ==
    /\ pc = "configured"
    /\ deck' = Main_DeckBuilder_new
    /\ players' = [i \in 1..player_count |-> <<>>]
    /\ turn' = 0
    /\ pc' = "spawned"
    /\ UNCHANGED <<count, player_count, panic, winner, results, cardVars>>

\* game.shuffle_deck()
ShuffleDeck ==
    /\ pc = "spawned"
    /\ \E a \in Strides(Len(deck)), b \in 0..MaxOffset : deck' = Shuffled(deck, a, b)
    /\ pc' = "loop"
    /\ UNCHANGED <<count, player_count, players, turn, panic, winner, results, cardVars>>

\* while !game.is_over() { game.advance() }; the line advance prints is not kept
Advance ==
    /\ pc = "loop"
    /\ ~is_over
    /\ LET g == Game_advance(deck, players, turn)
       IN /\ deck' = g.deck
          /\ players' = g.players
          /\ turn' = g.turn
          /\ pc' = IF g.ok THEN "loop" ELSE "panicked"
          /\ panic' = IF g.ok THEN panic ELSE <<UnwrapNone>>
    /\ UNCHANGED <<count, player_count, winner, results, cardVars>>

\* game.show_winner()
ShowWinner ==
    /\ pc = "loop"
    /\ is_over
    /\ winner' = <<show_winner>>
    /\ pc' = "won"
    /\ UNCHANGED <<count, player_count, deck, players, turn, panic, results, cardVars>>

\* game.show_results()
ShowResults ==
    /\ pc = "won"
    /\ results' = [p \in DOMAIN players |->
                      [lines |-> Main_display_hand(players[p], PlayerName(p - 1)),
                       score |-> score_hand(players[p])]]
    /\ pc' = "done"
    /\ UNCHANGED <<count, player_count, deck, players, turn, panic, winner, cardVars>>

Next ==
    \/ Players
    \/ Spawn
    \/ ShuffleDeck
    \/ Advance
    \/ ShowWinner
    \/ ShowResults

Spec == Init /\ [][Next]_vars

\* main() runs to its end: no step of it is put off for ever
FairSpec == Spec /\ WF_vars(Next)

---------------------------------------------------------------------------
(* cards.rs: card_printer *)

end_cell == <<"*", "-", "-", "-", "-", "-", "-", "-", "-", "-", "*">> \o <<" ">>

masked_cell == <<"|">> \o Rep("#", 9) \o <<"|">> \o <<" ">>

empty_cell(card) ==
    IF card.state = Hidden THEN masked_cell
    ELSE <<"|">> \o Rep(" ", 9) \o <<"|">> \o <<" ">>

\* the Ten branch dropped: every rank printed with the one-character padding
left_rank_cell_NoTen(card) ==
    IF card.state = Hidden THEN masked_cell
    ELSE <<"|", " ">> \o Rank_fmt(card.rank) \o Rep(" ", 7) \o <<"|">> \o <<" ">>

left_rank_cell(card) ==
    IF card.state = Hidden THEN masked_cell
    ELSE IF card.rank = Ten
    THEN <<"|", " ">> \o Rank_fmt(card.rank) \o Rep(" ", 6) \o <<"|">> \o <<" ">>
    ELSE <<"|", " ">> \o Rank_fmt(card.rank) \o Rep(" ", 7) \o <<"|">> \o <<" ">>

\* the Ten branch dropped: every rank printed with the one-character padding
right_rank_cell_NoTen(card) ==
    IF card.state = Hidden THEN masked_cell
    ELSE <<"|">> \o Rep(" ", 7) \o Rank_fmt(card.rank) \o <<" ", "|">> \o <<" ">>

right_rank_cell(card) ==
    IF card.state = Hidden THEN masked_cell
    ELSE IF card.rank = Ten
    THEN <<"|">> \o Rep(" ", 6) \o Rank_fmt(card.rank) \o <<" ", "|">> \o <<" ">>
    ELSE <<"|">> \o Rep(" ", 7) \o Rank_fmt(card.rank) \o <<" ", "|">> \o <<" ">>

\* the match on card.state dropped: the suit shown whatever the state
suit_cell_NoMask(card) ==
    <<"|">> \o Rep(" ", 4) \o Suit_fmt(card.suit) \o Rep(" ", 4) \o <<"|">> \o <<" ">>

suit_cell(card) ==
    IF card.state = Hidden THEN masked_cell
    ELSE <<"|">> \o Rep(" ", 4) \o Suit_fmt(card.suit) \o Rep(" ", 4) \o <<"|">> \o <<" ">>

index_cell(idx) == Rep(" ", 5) \o Decimal(idx) \o Rep(" ", 5) \o <<" ">>

print_end(h) == Cells([i \in DOMAIN h |-> end_cell], h, 1)

print_empty_section(h) == Cells([i \in DOMAIN h |-> empty_cell(h[i])], h, 1)

print_left_rank(h) == Cells([i \in DOMAIN h |-> left_rank_cell(h[i])], h, 1)

print_right_rank(h) == Cells([i \in DOMAIN h |-> right_rank_cell(h[i])], h, 1)

print_suit(h) == Cells([i \in DOMAIN h |-> suit_cell(h[i])], h, 1)

\* enumerate() counts from 0
print_index(h) == Cells([i \in DOMAIN h |-> index_cell(i - 1)], h, 1)

\* display_hand(hand, show_index): the lines printed
display_hand(h, show_index) ==
    << print_end(h),
       print_left_rank(h),
       print_empty_section(h),
       print_suit(h),
       print_empty_section(h),
       print_right_rank(h),
       print_end(h) >>
    \o (IF show_index THEN <<print_index(h)>> ELSE <<>>)

---------------------------------------------------------------------------
(* cards.rs driven as its tests drive it: a deck is built, cards of it are *)
(* copied into a hand, and the hand is toggled, sorted, valued, displayed. *)
(* out holds what the last call on the hand as it is now produced.         *)

\* the cards copied into hands
Pool == {<<Spades, Two>>, <<Spades, Ten>>, <<Hearts, Ten>>, <<Clubs, King>>, <<Diamonds, Ace>>}

InitCards ==
    /\ pc = "idle"
    /\ count = 0
    /\ player_count = DefaultPlayers
    /\ deck = <<>>
    /\ players = <<>>
    /\ turn = 0
    /\ panic = <<>>
    /\ winner = <<>>
    /\ results = <<>>
    /\ built = <<>>
    /\ hand = <<>>
    /\ out = NoOutput

\* DeckBuilder::new()
NewDeck ==
    /\ pc = "idle"
    /\ built' = DeckBuilder_new
    /\ UNCHANGED <<hand, out, gameVars>>

\* hand.push(deck[k])
PushCard ==
    /\ pc = "idle"
    /\ Len(hand) < MaxHandLen
    /\ \E k \in DOMAIN built :
          /\ <<built[k].suit, built[k].rank>> \in Pool
          /\ \A i \in DOMAIN hand : <<hand[i].suit, hand[i].rank>> # <<built[k].suit, built[k].rank>>
          /\ hand' = Append(hand, built[k])
    /\ out' = NoOutput
    /\ UNCHANGED <<built, gameVars>>

\* hand[i].toggle()
Toggle ==
    /\ pc = "idle"
    /\ \E i \in DOMAIN hand : hand' = [hand EXCEPT ![i] = Card_toggle(@)]
    /\ out' = NoOutput
    /\ UNCHANGED <<built, gameVars>>

\* hand.sort()
SortHand ==
    /\ pc = "idle"
    /\ hand' = Card_sort(hand)
    /\ out' = NoOutput
    /\ UNCHANGED <<built, gameVars>>

\* hand[i].value()
ValueOf ==
    /\ pc = "idle"
    /\ \E i \in DOMAIN hand :
          out' = [op |-> "value", index |-> i, value |-> Card_value(hand[i])]
    /\ UNCHANGED <<built, hand, gameVars>>

\* display_hand(&hand, show_index)
DisplayHand ==
    /\ pc = "idle"
    /\ \E show_index \in BOOLEAN :
          out' = [op |-> "display", show_index |-> show_index,
                  lines |-> display_hand(hand, show_index)]
    /\ UNCHANGED <<built, hand, gameVars>>

NextCards ==
    \/ NewDeck
    \/ PushCard
    \/ Toggle
    \/ SortHand
    \/ ValueOf
    \/ DisplayHand

SpecCards == InitCards /\ [][NextCards]_vars

---------------------------------------------------------------------------
(* Properties of the game *)

Range(s) == {s[i] : i \in DOMAIN s}

RECURSIVE Flatten(_)
Flatten(ss) == IF ss = <<>> THEN <<>> ELSE Head(ss) \o Flatten(Tail(ss))

\* the 4 x 13 (suit, rank) pairs
AllPairs == {[suit |-> SUITS[i], rank |-> RANKS[j]] : i \in DOMAIN SUITS, j \in DOMAIN RANKS}

\* a Game exists: spawn has run
GameExists == pc \in {"spawned", "loop", "won", "done"}

\* the sum of the card values of a hand, from its last card down
RECURSIVE SumValues(_)
SumValues(h) ==
    IF h = <<>> THEN 0
    ELSE SumValues(SubSeq(h, 1, Len(h) - 1)) + h[Len(h)].suit * Rank_value(h[Len(h)].rank)

\* C1: once a game is spawned, and after the shuffle and every advance, the
\* deck together with the hands holds each of the 52 (suit, rank) pairs
\* exactly once: no card is duplicated and none is lost.
C1_Partition ==
    GameExists =>
        LET all == deck \o Flatten(players)
        IN /\ Len(all) = 52
           /\ Range(all) = AllPairs
           /\ Cardinality(AllPairs) = 52

C1_Witness ==
    /\ pc = "loop"
    /\ turn >= 4
    /\ deck # SubSeq(Main_DeckBuilder_new, 1, Len(deck))
    /\ \E p \in DOMAIN players : Len(players[p]) >= 2

\* C2: in a game of 3 players the loop of main ends after exactly 9 calls of
\* advance (turn counts them): the game is over exactly when turn = 9, every
\* player then holds 3 cards, 9 cards have left the deck and 43 remain; and
\* the loop, once entered, does end.
C2_SafetyPart ==
    (GameExists /\ Len(players) = 3) =>
        /\ turn <= 9
        /\ is_over <=> turn = 9
        /\ Len(deck) = 52 - turn
        /\ pc \in {"won", "done"} =>
              /\ turn = 9
              /\ \A p \in DOMAIN players : Len(players[p]) = 3
              /\ Len(deck) = 43

C2_ThreePlayers ==
    /\ []C2_SafetyPart
    /\ (pc = "loop" /\ Len(players) = 3) ~> (pc = "done" /\ turn = 9)

C2_Witness ==
    /\ pc = "done"
    /\ Len(players) = 3
    /\ turn = 9
    /\ Len(deck) = 43

\* C3: the player show_winner names has the greatest value sum of all hands,
\* and every player before it has a strictly smaller sum: on a tie for the
\* greatest sum the first (lowest-index) of the tied players wins.
C3_Winner ==
    winner # <<>> =>
        LET w == winner[1] + 1
        IN /\ w \in DOMAIN players
           /\ \A p \in DOMAIN players : SumValues(players[p]) <= SumValues(players[w])
           /\ \A p \in DOMAIN players : p < w => SumValues(players[p]) < SumValues(players[w])

\* a tie for the greatest sum, won by the first of the tied players
C3_Witness ==
    /\ winner # <<>>
    /\ is_over
    /\ \E p \in DOMAIN players :
          /\ p > winner[1] + 1
          /\ SumValues(players[p]) = SumValues(players[winner[1] + 1])

\* C10: players(count) keeps a count of 2..=5 unchanged (the game spawned has
\* that many players); any other count panics at once, with no deck, hands or
\* turn created, and is never clamped or replaced by the default.
C10_Players ==
    /\ count \in 2..5 =>
          /\ pc # "new" => player_count = count
          /\ panic \notin {<<TooFew>>, <<TooMany>>}
          /\ GameExists => Len(players) = count
    /\ count \notin 2..5 =>
          /\ pc \in {"new", "panicked"}
          /\ pc = "panicked" => panic = (IF count < 2 THEN <<TooFew>> ELSE <<TooMany>>)
          /\ deck = <<>> /\ players = <<>> /\ turn = 0
          /\ player_count = DefaultPlayers

C10_Witness ==
    /\ pc = "panicked"
    /\ count > 5
    /\ panic = <<TooMany>>
    /\ deck = <<>>

\* C11: for every accepted count n of players (2..=5) and every shuffle the
\* loop never draws from an empty deck: whenever advance is about to run
\* (the game is not over) the deck holds a card, so unwrap never panics; the
\* game is over after exactly 3n calls of advance, with 52 - 3n cards left in
\* the deck; and the loop does get there.
C11_SafetyPart ==
    /\ panic # <<UnwrapNone>>
    /\ GameExists =>
          LET n == Len(players)
          IN /\ n \in 2..5
             /\ turn <= 3 * n
             /\ Len(deck) = 52 - turn
             /\ is_over <=> turn = 3 * n
             /\ (pc = "loop" /\ ~is_over) => deck # <<>>
             /\ pc \in {"won", "done"} => (turn = 3 * n /\ Len(deck) = 52 - 3 * n)

C11_NoEmptyDraw ==
    /\ []C11_SafetyPart
    /\ (pc = "loop") ~> (pc = "done" /\ turn = 3 * Len(players))

C11_Witness ==
    /\ pc = "done"
    /\ Len(players) = 5
    /\ turn = 15
    /\ Len(deck) = 37
    /\ panic = <<>>

\* a before b in the order by suit, then rank
SuitThenRank(a, b) == a.suit < b.suit \/ (a.suit = b.suit /\ a.rank < b.rank)

C12_StatePart ==
    GameExists =>
        /\ \A p \in DOMAIN players :
              \A i, j \in DOMAIN players[p] : i < j => SuitThenRank(players[p][i], players[p][j])
        /\ turn = Len(Flatten(players))
        /\ \A p, q \in DOMAIN players : Len(players[p]) - Len(players[q]) \in {-1, 0, 1}

\* a step that changes turn is a call of advance, the k-th for k = turn
C12_StepPart ==
    turn' # turn =>
        LET n == Len(players)
            p == (turn % n) + 1
            card == deck[Len(deck)]
        IN /\ turn' = turn + 1
           /\ deck # <<>>
           /\ deck' = SubSeq(deck, 1, Len(deck) - 1)
           /\ DOMAIN players' = DOMAIN players
           /\ \A q \in DOMAIN players : q # p => players'[q] = players[q]
           /\ Len(players'[p]) = Len(players[p]) + 1
           /\ Range(players'[p]) = Range(players[p]) \cup {card}

\* C12: advance deals round-robin and keeps the hands sorted: the k-th call
\* (k from 0) takes the last card of the deck and gives it to player k mod n,
\* leaving the other hands as they were; after every call each hand is in
\* ascending order of suit, then rank, turn is the number of cards held in
\* the hands, and the sizes of two hands differ by one at most.
C12_RoundRobin ==
    /\ []C12_StatePart
    /\ [][C12_StepPart]_vars

\* in the middle of a round, with a hand that an order by rank would arrange
\* differently
C12_Witness ==
    /\ pc = "loop"
    /\ turn >= 5
    /\ turn % Len(players) # 0
    /\ \E p, q \in DOMAIN players : Len(players[p]) = Len(players[q]) + 1
    /\ \E p \in DOMAIN players : \E i, j \in DOMAIN players[p] :
          /\ i < j
          /\ players[p][i].suit < players[p][j].suit
          /\ players[p][i].rank > players[p][j].rank

---------------------------------------------------------------------------
(* Properties of cards.rs *)

\* the card at place k of a rank-major, suit-minor deck: (k-1) mod 4 picks the
\* suit (Spades, Diamonds, Hearts, Clubs), (k-1) div 4 the rank (Two .. Ace)
RankMajorSuit(k) == <<Spades, Diamonds, Hearts, Clubs>>[((k - 1) % 4) + 1]

RankMajorRank(k) ==
    <<Two, Three, Four, Five, Six, Seven, Eight, Nine, Ten, Jack, Queen, King, Ace>>[((k - 1) \div 4) + 1]

\* C4: every call of DeckBuilder::new returns the same 52 cards, each of the
\* 4 x 13 (suit, rank) pairs exactly once, rank-major and suit-minor: the four
\* suits Spades, Diamonds, Hearts, Clubs of Two, then those of Three, ... of Ace.
C4_Deck ==
    built # <<>> =>
        /\ Len(built) = 52
        /\ \A k \in DOMAIN built :
              /\ built[k].suit = RankMajorSuit(k)
              /\ built[k].rank = RankMajorRank(k)
        /\ {[suit |-> built[k].suit, rank |-> built[k].rank] : k \in DOMAIN built} = AllPairs
        /\ Cardinality(AllPairs) = 52

C4_Witness ==
    /\ built # <<>>
    /\ Len(hand) >= 2
    /\ built[1].suit = Spades /\ built[1].rank = Two
    /\ built[52].suit = Clubs /\ built[52].rank = Ace

\* the cards compared: those of the hand and their toggled copies
Compared == Range(hand) \cup {Card_toggle(c) : c \in Range(hand)}

\* a card of main.rs: the suit and the rank alone
Plain(c) == [suit |-> c.suit, rank |-> c.rank]

IsPermutationOf(s, t) ==
    /\ Len(s) = Len(t)
    /\ \A c \in Range(s) \cup Range(t) :
          Cardinality({i \in DOMAIN s : s[i] = c}) = Cardinality({i \in DOMAIN t : t[i] = c})

\* sorting groups the cards by suit, ascending, and is idempotent
SortLaw ==
    LET s == Card_sort(hand)
    IN /\ IsPermutationOf(s, hand)
       /\ \A i, j \in DOMAIN s : i < j => s[i].suit <= s[j].suit
       /\ \A i, j \in DOMAIN s : i < j => ~Card_lt(s[j], s[i])
       /\ Card_sort(s) = s

\* Card_lt orders any two different cards, one way only
StrictTotal ==
    /\ \A a, b \in Compared :
          /\ ~Card_lt(a, a)
          /\ a # b => (Card_lt(a, b) <=> ~Card_lt(b, a))
    /\ \A a, b, c \in Range(hand) : (Card_lt(a, b) /\ Card_lt(b, c)) => Card_lt(a, c)

\* C5 as claimed: the order of cards is by suit, then by rank alone: with
\* equal suits A < B exactly when A.rank < B.rank.
C5_Original ==
    /\ \A a, b \in Compared :
          /\ a.suit < b.suit => Card_lt(a, b)
          /\ a.suit = b.suit => (Card_lt(a, b) <=> a.rank < b.rank)
    /\ StrictTotal
    /\ SortLaw

\* C5, amended: the order of cards is a strict total order by suit, then rank,
\* then (cards.rs only, where a Card has a state) state with Visible < Hidden:
\* a smaller suit makes a card smaller whatever the ranks; with equal suits
\* A < B exactly when A.rank < B.rank, or the ranks are equal and A is Visible
\* and B Hidden. The Card of main.rs has no state and is ordered by suit, then
\* rank alone. Sorting groups cards by suit and is idempotent.
C5_Order ==
    /\ \A a, b \in Compared :
          /\ a.suit < b.suit => Card_lt(a, b)
          /\ a.suit = b.suit =>
                (Card_lt(a, b) <=>
                    \/ a.rank < b.rank
                    \/ a.rank = b.rank /\ a.state = Visible /\ b.state = Hidden)
          /\ Plain(a).suit < Plain(b).suit => Main_Card_lt(Plain(a), Plain(b))
          /\ Plain(a).suit = Plain(b).suit =>
                (Main_Card_lt(Plain(a), Plain(b)) <=> a.rank < b.rank)
    /\ StrictTotal
    /\ SortLaw

\* an unsorted hand of two suits, with a higher rank of the smaller suit
C5_Witness ==
    /\ Len(hand) >= 3
    /\ Card_sort(hand) # hand
    /\ \E i, j \in DOMAIN hand :
          /\ hand[i].suit < hand[j].suit
          /\ hand[i].rank > hand[j].rank
    /\ \E i, j \in DOMAIN hand :
          /\ hand[i].suit = hand[j].suit
          /\ hand[i].rank < hand[j].rank
          /\ hand[i].state # hand[j].state

\* the points of the ranks Two .. Ace
Points == <<2, 3, 4, 5, 6, 7, 8, 9, 10, 10, 10, 10, 11>>

ExpectedValue(c) == c.suit * Points[c.rank + 1]

C6_ValuePart ==
    /\ \A k \in DOMAIN built :
          /\ Card_value(built[k]) = ExpectedValue(built[k])
          /\ Card_value(Card_toggle(built[k])) = Card_value(built[k])
    /\ built # <<>> =>
          /\ Card_value(built[49]) = 11
          /\ Card_value(built[48]) = 40
          /\ Card_value(built[3]) = 6
    /\ out.op = "value" => out.value = ExpectedValue(hand[out.index])

\* C6: the value of a card is its suit's ordinal (Spades 1, Diamonds 2,
\* Hearts 3, Clubs 4) times its rank's points (Two..Nine: 2..9; Ten, Jack,
\* Queen, King: 10; Ace: 11), whatever its state, and taking it changes no
\* card: value(Spades, Ace) = 11, value(Clubs, King) = 40, value(Hearts, Two) = 6.
C6_Value ==
    /\ []C6_ValuePart
    /\ [][(out' # out /\ out'.op = "value") => (hand' = hand /\ built' = built)]_vars

C6_Witness ==
    /\ out.op = "value"
    /\ hand[out.index].suit = Clubs
    /\ hand[out.index].rank = King
    /\ hand[out.index].state = Visible
    /\ out.value = 40

\* the places of the frame bars of a line, among the tokens that take a column
Bars(line) ==
    LET shown == Shown(line)
    IN SelectSeq([k \in DOMAIN shown |-> k], LAMBDA k : shown[k] = "|" \/ shown[k] = "*")

\* column i of a line, from its left frame bar to its right one
Column(line, i) ==
    LET bars == Bars(line)
    IN SubSeq(Shown(line), bars[2 * i - 1], bars[2 * i])

CountOf(line, tokens) == Len(SelectSeq(line, LAMBDA t : t \in tokens))

Glyphs == {"U+2660", "U+2666", "U+2665", "U+2663"}

RankChars == {"2", "3", "4", "5", "6", "7", "8", "9", "1", "0", "J", "Q", "K", "A"}

Border == <<"*", "-", "-", "-", "-", "-", "-", "-", "-", "-", "*">>

Masked == <<"|", "#", "#", "#", "#", "#", "#", "#", "#", "#", "|">>

HiddenAt == {i \in DOMAIN hand : hand[i].state = Hidden}

VisibleAt == {i \in DOMAIN hand : hand[i].state = Visible}

\* C7 as claimed: every line display_hand prints for N cards is 12N - 1
\* columns wide (nothing for no card): N columns of 11 and the separators
\* between them, none after the last.
C7_Original ==
    out.op = "display" =>
        \A r \in DOMAIN out.lines :
            Width(out.lines[r]) = IF Len(hand) = 0 THEN 0 ELSE 12 * Len(hand) - 1

\* C7, amended: every line display_hand prints for N cards (N = 0..5, any
\* ranks and states, the index line included) takes the same number of
\* terminal columns, 12N: each of the N framed columns of 11 is followed by
\* one separator space, the last one too.
C7_Width ==
    out.op = "display" =>
        /\ Len(out.lines) = IF out.show_index THEN 8 ELSE 7
        /\ \A r \in DOMAIN out.lines :
              /\ Width(out.lines[r]) = 12 * Len(hand)
              /\ \A i \in DOMAIN hand : Shown(out.lines[r])[12 * i] = " "
        /\ \A r \in 1..7, i \in DOMAIN hand : Len(Column(out.lines[r], i)) = 11

C7_Witness ==
    /\ out.op = "display"
    /\ out.show_index
    /\ Len(hand) = 5
    /\ HiddenAt # {}
    /\ \E i, j \in VisibleAt : hand[i].rank = Ten /\ hand[j].rank # Ten

\* C8: a Hidden card's column shows |#########| in the five rows between the
\* borders, with no rank and no suit glyph, and the border rows are those of
\* a Visible card; toggle flips Visible and Hidden and leaves suit and rank,
\* so that toggling a card twice gives back the rendering there was.
C8_Mask ==
    /\ out.op = "display" =>
          /\ \A i \in DOMAIN hand :
                /\ Column(out.lines[1], i) = Border
                /\ Column(out.lines[7], i) = Border
          /\ \A i \in HiddenAt, r \in 2..6 : Column(out.lines[r], i) = Masked
          /\ \A r \in 1..7 :
                /\ CountOf(out.lines[r], Glyphs) = IF r = 4 THEN Cardinality(VisibleAt) ELSE 0
                /\ CountOf(out.lines[r], RankChars) =
                      IF r \in {2, 6}
                      THEN Cardinality(VisibleAt) + Cardinality({i \in VisibleAt : hand[i].rank = Ten})
                      ELSE 0
          /\ \A i \in DOMAIN hand :
                LET once == [hand EXCEPT ![i] = Card_toggle(@)]
                    twice == [once EXCEPT ![i] = Card_toggle(@)]
                IN /\ display_hand(once, out.show_index) # out.lines
                   /\ display_hand(twice, out.show_index) = out.lines
    /\ \A i \in DOMAIN hand :
          LET once == Card_toggle(hand[i])
          IN /\ once.state # hand[i].state
             /\ once.state \in {Visible, Hidden}
             /\ once.suit = hand[i].suit /\ once.rank = hand[i].rank
             /\ Card_toggle(once) = hand[i]

C8_Witness ==
    /\ out.op = "display"
    /\ Cardinality(HiddenAt) >= 2
    /\ Cardinality(VisibleAt) >= 2

\* the spaces of a column
Spaces(col) == CountOf(col, {" "})

AsVisible(rank) == [suit |-> Spades, rank |-> rank, state |-> Visible]

\* a cell without the separator that follows it
Framed(cell) == SubSeq(cell, 1, Len(cell) - 1)

\* C9: in the row of the left rank and in the row of the right rank, the
\* column of a visible Ten is as wide as the column of a visible card of a
\* one-character rank: the padding beside "10" is one space shorter.
C9_TenWidth ==
    /\ out.op = "display" =>
          \A i, j \in VisibleAt : (hand[i].rank = Ten /\ hand[j].rank # Ten) =>
              \A r \in {2, 6} :
                  /\ Len(Column(out.lines[r], i)) = Len(Column(out.lines[r], j))
                  /\ Spaces(Column(out.lines[r], i)) + 1 = Spaces(Column(out.lines[r], j))
    /\ \A c \in Range(hand) :
          LET ten == AsVisible(Ten)
              one == AsVisible(IF c.rank = Ten THEN Ace ELSE c.rank)
          IN /\ Len(Framed(left_rank_cell(ten))) = Len(Framed(left_rank_cell(one)))
             /\ Len(Framed(right_rank_cell(ten))) = Len(Framed(right_rank_cell(one)))
             /\ Spaces(Framed(left_rank_cell(ten))) + 1 = Spaces(Framed(left_rank_cell(one)))
             /\ Spaces(Framed(right_rank_cell(ten))) + 1 = Spaces(Framed(right_rank_cell(one)))
             /\ Len(Framed(Main_left_rank_cell(ten))) = Len(Framed(Main_left_rank_cell(one)))
             /\ Len(Framed(Main_right_rank_cell(ten))) = Len(Framed(Main_right_rank_cell(one)))
             /\ Spaces(Framed(Main_left_rank_cell(ten))) + 1 = Spaces(Framed(Main_left_rank_cell(one)))
             /\ Spaces(Framed(Main_right_rank_cell(ten))) + 1 = Spaces(Framed(Main_right_rank_cell(one)))

C9_Witness ==
    /\ out.op = "display"
    /\ \E i, j \in VisibleAt : hand[i].rank = Ten /\ hand[j].rank # Ten /\ i < j
    /\ \E i, j \in VisibleAt : hand[i].rank = Ten /\ hand[j].rank # Ten /\ i > j

=============================================================================
